---- MODULE Spec2Model ----
(***************************************************************************)
(* Model of the three Supabase maintenance scripts:                        *)
(*   fix_auth.py          fix_email_confirmation()                         *)
(*   reset_password.py    reset_password(email, new_password)              *)
(*   test_login_direct.py test_login(email, password)                      *)
(* Each run is a sequential procedure; the remote service is the           *)
(* environment and picks the status and body of every response.            *)
(***************************************************************************)
EXTENDS Integers, Sequences, FiniteSets, TLC

\* Longest user list the service returns in the model.
MaxUsers == 2

\* The status the scripts compare every response against.
HTTP_OK == 200

\* Statuses the service answers with.
Statuses == {HTTP_OK, 500}

-----------------------------------------------------------------------------
(* JSON values as Python sees them after response.json().                  *)

JNull == [t |-> "null"]

JStr(s) == [t |-> "str", s |-> s]

JObj(f) == [t |-> "obj", f |-> f]

JArr(a) == [t |-> "arr", a |-> a]

\* A body response.json() cannot parse.
NotJson == [t |-> "invalid"]

EmptyFields == [k \in {} |-> JNull]

\* isinstance(v, dict)
IsDict(v) == v.t = "obj"

\* isinstance(v, list)
IsList(v) == v.t = "arr"

\* d.get(k, default) on a dict
Get(d, k, default) == IF k \in DOMAIN d.f THEN d.f[k] ELSE default

\* Variant: only None is false (a test "is not None" in place of truthiness).
Truthy_OnlyNoneFalse(v) == v.t # "null"

\* Python truth value: None, "", {} and [] are false.
Truthy(v) ==
    CASE v.t = "null" -> FALSE
      [] v.t = "str" -> v.s # ""
      [] v.t = "obj" -> DOMAIN v.f # {}
      [] v.t = "arr" -> v.a # <<>>

\* str(v) as an f-string renders it into a URL: None becomes "None".
Format(v) == IF v.t = "str" THEN v.s ELSE "None"

-----------------------------------------------------------------------------
(* What the service can send.                                              *)

\* reset_password("admin@test.com", ...) of the script's main block.
TargetEmail == "admin@test.com"

Ids == {"u1"}

Emails == {TargetEmail, "b@x.com"}

Confirmations == {JNull, JStr(""), JStr("2024-01-01T00:00:00Z")}

UserKeys == {"id", "email", "email_confirmed_at"}

FieldValues(k) ==
    CASE k = "id" -> {JStr(i) : i \in Ids}
      [] k = "email" -> {JStr(e) : e \in Emails}
      [] k = "email_confirmed_at" -> Confirmations

AllFieldValues == UNION {FieldValues(k) : k \in UserKeys}

\* User objects with any subset of the three keys present.
UserObjects ==
    {JObj(f) : f \in UNION {{g \in [D -> AllFieldValues] :
                                \A k \in D : g[k] \in FieldValues(k)} :
                            D \in SUBSET UserKeys}}

\* An entry of the list is a user object or something that is no mapping.
Entries == UserObjects \cup {JStr("oops")}

UserLists == UNION {[1..n -> Entries] : n \in 0..MaxUsers}

WrappedBody(us) == JObj([users |-> JArr(us)])

BareBody(us) == JArr(us)

\* Bodies of GET /auth/v1/admin/users.
ListBodies ==
    {WrappedBody(us) : us \in UserLists} \cup {BareBody(us) : us \in UserLists}
        \cup {JObj(EmptyFields), JStr("error"), JNull}

\* Bodies of POST /auth/v1/token.
TokenBodies ==
    {JObj(f) : f \in UNION {{g \in [D -> {JNull, JStr("tok"), JObj(EmptyFields),
                                          JObj([id |-> JStr("u1")])}] :
                                /\ "access_token" \in D =>
                                       g["access_token"] \in {JNull, JStr("tok")}
                                /\ "user" \in D =>
                                       g["user"] \in {JNull, JObj(EmptyFields),
                                                      JObj([id |-> JStr("u1")])}} :
                            D \in SUBSET {"access_token", "user"}}}
        \cup {JArr(<<>>), JNull, NotJson}

-----------------------------------------------------------------------------
VARIABLES
    prog,               \* the entry point this run executes
    pc,                 \* position in it
    data,               \* response.json() of the list fetch
    users,              \* the normalised user list
    idx,                \* fixer: entries the for loop has consumed;
                        \* reset: where the scan stopped (0: no match)
    fixed_count,
    already_confirmed,
    errors,
    target_user,        \* reset_password: the record found, or None
    requests,           \* every HTTP request issued, in order, with its answer
    outcome,            \* how the run ended
    prev                \* what an earlier run of the same entry point did

vars == <<prog, pc, data, users, idx, fixed_count, already_confirmed, errors,
          target_user, requests, outcome, prev>>

Request(method, path, status, pos) ==
    [method |-> method, path |-> path, status |-> status, pos |-> pos]

Start(p) ==
    /\ prog = p
    /\ pc = "start"
    /\ data = JNull
    /\ users = <<>>
    /\ idx = 0
    /\ fixed_count = 0
    /\ already_confirmed = 0
    /\ errors = 0
    /\ target_user = JNull
    /\ requests = <<>>
    /\ outcome = "running"

Init ==
    /\ \E p \in {"fix_email_confirmation", "reset_password", "test_login"} : Start(p)
    /\ prev = <<>>

-----------------------------------------------------------------------------
(* fix_auth.py                                                             *)

\* Variant: the dict branch reads another key than "users".
FixUsers_WrongKey(d) ==
    IF IsDict(d) THEN Get(d, "data", JArr(<<>>)).a
    ELSE IF IsList(d) THEN d.a
    ELSE <<>>

\* The response-format branches of the fixer.
FixUsers(d) ==
    IF IsDict(d) THEN Get(d, "users", JArr(<<>>)).a
    ELSE IF IsList(d) THEN d.a
    ELSE <<>>

\* Variant: the error is printed but the return is missing.
FixFetch_NoReturn(status, body) ==
    /\ prog = "fix_email_confirmation"
    /\ pc = "start"
    /\ requests' = Append(requests, Request("GET", "", status, 0))
    /\ data' = body
    /\ users' = FixUsers(body)
    /\ fixed_count' = 0
    /\ already_confirmed' = 0
    /\ errors' = 0
    /\ pc' = "loop"
    /\ UNCHANGED <<prog, idx, target_user, outcome, prev>>

\* GET the list; a status other than 200 ends the run.
FixFetch(status, body) ==
    /\ prog = "fix_email_confirmation"
    /\ pc = "start"
    /\ requests' = Append(requests, Request("GET", "", status, 0))
    /\ IF status # HTTP_OK
       THEN /\ pc' = "done"
            /\ outcome' = "fetch_failed"
            /\ UNCHANGED <<data, users, fixed_count, already_confirmed, errors>>
       ELSE /\ data' = body
            /\ users' = FixUsers(body)
            /\ fixed_count' = 0
            /\ already_confirmed' = 0
            /\ errors' = 0
            /\ pc' = "loop"
            /\ UNCHANGED outcome
    /\ UNCHANGED <<prog, idx, target_user, prev>>

\* Variant: an entry that is no dict is counted as an error.
FixSkip_CountsError ==
    /\ prog = "fix_email_confirmation"
    /\ pc = "loop"
    /\ idx < Len(users)
    /\ ~IsDict(users[idx + 1])
    /\ idx' = idx + 1
    /\ errors' = errors + 1
    /\ UNCHANGED <<prog, pc, data, users, fixed_count, already_confirmed,
                   target_user, requests, outcome, prev>>

\* An entry that is no dict: warn and continue.
FixSkip ==
    /\ prog = "fix_email_confirmation"
    /\ pc = "loop"
    /\ idx < Len(users)
    /\ ~IsDict(users[idx + 1])
    /\ idx' = idx + 1
    /\ UNCHANGED <<prog, pc, data, users, fixed_count, already_confirmed, errors,
                   target_user, requests, outcome, prev>>

\* A dict whose email_confirmed_at is truthy.
FixAlready ==
    /\ prog = "fix_email_confirmation"
    /\ pc = "loop"
    /\ idx < Len(users)
    /\ IsDict(users[idx + 1])
    /\ Truthy(Get(users[idx + 1], "email_confirmed_at", JNull))
    /\ already_confirmed' = already_confirmed + 1
    /\ idx' = idx + 1
    /\ UNCHANGED <<prog, pc, data, users, fixed_count, errors, target_user,
                   requests, outcome, prev>>

\* Variant: a failed PUT ends the loop (break in the error branch).
FixUpdate_BreakOnError(status) ==
    /\ prog = "fix_email_confirmation"
    /\ pc = "loop"
    /\ idx < Len(users)
    /\ IsDict(users[idx + 1])
    /\ ~Truthy(Get(users[idx + 1], "email_confirmed_at", JNull))
    /\ LET user_id == Get(users[idx + 1], "id", JNull)
       IN  requests' = Append(requests,
                              Request("PUT", Format(user_id), status, idx + 1))
    /\ IF status = HTTP_OK
       THEN /\ fixed_count' = fixed_count + 1
            /\ idx' = idx + 1
            /\ UNCHANGED <<errors, pc, outcome>>
       ELSE /\ errors' = errors + 1
            /\ idx' = idx + 1
            /\ pc' = "done"
            /\ outcome' = "summary"
            /\ UNCHANGED fixed_count
    /\ UNCHANGED <<prog, data, users, already_confirmed, target_user, prev>>

\* Variant: a failed PUT is tried again (the record is not left behind).
FixUpdate_Retry(status) ==
    /\ prog = "fix_email_confirmation"
    /\ pc = "loop"
    /\ idx < Len(users)
    /\ IsDict(users[idx + 1])
    /\ ~Truthy(Get(users[idx + 1], "email_confirmed_at", JNull))
    /\ LET user_id == Get(users[idx + 1], "id", JNull)
       IN  requests' = Append(requests,
                              Request("PUT", Format(user_id), status, idx + 1))
    /\ IF status = HTTP_OK
       THEN fixed_count' = fixed_count + 1 /\ idx' = idx + 1 /\ UNCHANGED errors
       ELSE errors' = errors + 1 /\ UNCHANGED <<fixed_count, idx>>
    /\ UNCHANGED <<prog, pc, data, users, already_confirmed, target_user,
                   outcome, prev>>

\* A dict whose email_confirmed_at is falsy: PUT, then count by status.
FixUpdate(status) ==
    /\ prog = "fix_email_confirmation"
    /\ pc = "loop"
    /\ idx < Len(users)
    /\ IsDict(users[idx + 1])
    /\ ~Truthy(Get(users[idx + 1], "email_confirmed_at", JNull))
    /\ LET user_id == Get(users[idx + 1], "id", JNull)
       IN  requests' = Append(requests,
                              Request("PUT", Format(user_id), status, idx + 1))
    /\ IF status = HTTP_OK
       THEN fixed_count' = fixed_count + 1 /\ UNCHANGED errors
       ELSE errors' = errors + 1 /\ UNCHANGED fixed_count
    /\ idx' = idx + 1
    /\ UNCHANGED <<prog, pc, data, users, already_confirmed, target_user,
                   outcome, prev>>

\* The loop is exhausted: print the summary.
FixSummary ==
    /\ prog = "fix_email_confirmation"
    /\ pc = "loop"
    /\ idx = Len(users)
    /\ pc' = "done"
    /\ outcome' = "summary"
    /\ UNCHANGED <<prog, data, users, idx, fixed_count, already_confirmed,
                   errors, target_user, requests, prev>>

-----------------------------------------------------------------------------
(* reset_password.py                                                       *)

\* Variant: any other format degrades to an empty list, as in the fixer.
ResetUsers_Degrades(d) ==
    IF IsDict(d) THEN <<Get(d, "users", JArr(<<>>)).a>>
    ELSE IF IsList(d) THEN <<d.a>>
    ELSE <<<<>>>>

\* The response-format branches of the reset tool: the list, or no list.
ResetUsers(d) ==
    IF IsDict(d) THEN <<Get(d, "users", JArr(<<>>)).a>>
    ELSE IF IsList(d) THEN <<d.a>>
    ELSE <<>>

\* Variant: the loop has no break, so the last match wins.
RECURSIVE FindUser_NoBreak(_, _, _)
FindUser_NoBreak(us, email, i) ==
    IF i > Len(us) THEN 0
    ELSE LET later == FindUser_NoBreak(us, email, i + 1)
         IN  IF later # 0 THEN later
             ELSE IF IsDict(us[i]) /\ Get(us[i], "email", JNull) = JStr(email)
                  THEN i
                  ELSE 0

\* The for loop with its break: index of the first dict whose email equals
\* the argument, 0 when the loop ends without one.
RECURSIVE FindUser(_, _, _)
FindUser(us, email, i) ==
    IF i > Len(us) THEN 0
    ELSE IF IsDict(us[i]) /\ Get(us[i], "email", JNull) = JStr(email) THEN i
    ELSE FindUser(us, email, i + 1)

\* GET the list; a status other than 200 or an unexpected format ends the run.
ResetFetch(status, body) ==
    /\ prog = "reset_password"
    /\ pc = "start"
    /\ requests' = Append(requests, Request("GET", "", status, 0))
    /\ IF status # HTTP_OK
       THEN /\ pc' = "done"
            /\ outcome' = "fetch_failed"
            /\ UNCHANGED <<data, users>>
       ELSE /\ data' = body
            /\ IF ResetUsers(body) = <<>>
               THEN /\ pc' = "done"
                    /\ outcome' = "unexpected_format"
                    /\ UNCHANGED users
               ELSE /\ users' = ResetUsers(body)[1]
                    /\ pc' = "scan"
                    /\ UNCHANGED outcome
    /\ UNCHANGED <<prog, idx, fixed_count, already_confirmed, errors,
                   target_user, prev>>

\* Scan for the target; without one the run ends with "not found".
ResetFind ==
    /\ prog = "reset_password"
    /\ pc = "scan"
    /\ LET i == FindUser(users, TargetEmail, 1)
       IN  /\ idx' = i
           /\ target_user' = IF i = 0 THEN JNull ELSE users[i]
    /\ IF ~Truthy(target_user')
       THEN pc' = "done" /\ outcome' = "not_found"
       ELSE pc' = "update" /\ UNCHANGED outcome
    /\ UNCHANGED <<prog, data, users, fixed_count, already_confirmed, errors,
                   requests, prev>>

\* PUT the new password for the record found.
ResetUpdate(status) ==
    /\ prog = "reset_password"
    /\ pc = "update"
    /\ LET user_id == Get(target_user, "id", JNull)
       IN  requests' = Append(requests,
                              Request("PUT", Format(user_id), status, idx))
    /\ pc' = "done"
    /\ outcome' = IF status = HTTP_OK THEN "reset_ok" ELSE "reset_failed"
    /\ UNCHANGED <<prog, data, users, idx, fixed_count, already_confirmed,
                   errors, target_user, prev>>

-----------------------------------------------------------------------------
(* test_login_direct.py                                                    *)

\* What the success branch does with the body: the value returned, or the
\* exception that leaves the function.
LoginSuccess(body) ==
    IF body = NotJson THEN "JSONDecodeError"
    ELSE IF ~IsDict(body) THEN "AttributeError"
    ELSE IF Get(body, "access_token", JStr("N/A")).t # "str" THEN "TypeError"
    ELSE IF ~IsDict(Get(body, "user", JObj(EmptyFields))) THEN "AttributeError"
    ELSE "True"

\* POST the credentials and branch on the status.
TestLogin(status, body) ==
    /\ prog = "test_login"
    /\ pc = "start"
    /\ requests' = Append(requests, Request("POST", "", status, 0))
    /\ pc' = "done"
    /\ outcome' = IF status = HTTP_OK THEN LoginSuccess(body) ELSE "False"
    /\ data' = IF status = HTTP_OK /\ body # NotJson THEN body ELSE data
    /\ UNCHANGED <<prog, users, idx, fixed_count, already_confirmed, errors,
                   target_user, prev>>

-----------------------------------------------------------------------------
Next ==
    \/ /\ pc = "start"
       /\ \E status \in Statuses, body \in ListBodies : FixFetch(status, body)
    \/ FixSkip
    \/ FixAlready
    \/ \E status \in Statuses : FixUpdate(status)
    \/ FixSummary
    \/ /\ pc = "start"
       /\ \E status \in Statuses, body \in ListBodies : ResetFetch(status, body)
    \/ ResetFind
    \/ \E status \in Statuses : ResetUpdate(status)
    \/ \E status \in Statuses, body \in TokenBodies : TestLogin(status, body)

Spec == Init /\ [][Next]_vars

-----------------------------------------------------------------------------
(* Two runs of one entry point against the same records, served once under *)
(* "users" and once as a bare array, with the same answers to the updates. *)

\* The script is run again: what the finished run did is kept for comparison.
Rerun ==
    /\ pc = "done"
    /\ prev = <<>>
    /\ prev' = <<[data |-> data, requests |-> requests, outcome |-> outcome,
                  fixed_count |-> fixed_count,
                  already_confirmed |-> already_confirmed,
                  errors |-> errors]>>
    /\ pc' = "start"
    /\ data' = JNull
    /\ users' = <<>>
    /\ idx' = 0
    /\ fixed_count' = 0
    /\ already_confirmed' = 0
    /\ errors' = 0
    /\ target_user' = JNull
    /\ requests' = <<>>
    /\ outcome' = "running"
    /\ UNCHANGED prog

\* The same records in the other of the two documented shapes.
OtherShape(d) == IF IsDict(d) THEN BareBody(d.f.users.a) ELSE WrappedBody(d.a)

\* The first run is served any list in either shape, the second the same
\* records in the other shape.
TwinBodies ==
    IF prev = <<>>
    THEN {WrappedBody(us) : us \in UserLists} \cup {BareBody(us) : us \in UserLists}
    ELSE {OtherShape(prev[1].data)}

\* The second run's requests are answered as the first run's were.
TwinStatuses ==
    IF prev # <<>> /\ Len(requests) < Len(prev[1].requests)
    THEN {prev[1].requests[Len(requests) + 1].status}
    ELSE Statuses

TwinInit ==
    /\ \E p \in {"fix_email_confirmation", "reset_password"} : Start(p)
    /\ prev = <<>>

TwinNext ==
    \/ /\ pc = "start"
       /\ \E body \in TwinBodies : FixFetch(HTTP_OK, body)
    \/ FixSkip
    \/ FixAlready
    \/ \E status \in TwinStatuses : FixUpdate(status)
    \/ FixSummary
    \/ /\ pc = "start"
       /\ \E body \in TwinBodies : ResetFetch(HTTP_OK, body)
    \/ ResetFind
    \/ \E status \in TwinStatuses : ResetUpdate(status)
    \/ Rerun

TwinSpec == TwinInit /\ [][TwinNext]_vars

-----------------------------------------------------------------------------
(* Vocabulary of the properties, read off the response and the request log *)
(* rather than off the scripts' own variables.                             *)

\* The records the list fetch returned, in either documented shape.
Fetched ==
    IF data.t = "arr" THEN data.a
    ELSE IF data.t = "obj" /\ "users" \in DOMAIN data.f THEN data.f["users"].a
    ELSE <<>>

FetchOk == requests # <<>> /\ requests[1].status = 200

Puts == {k \in 1..Len(requests) : requests[k].method = "PUT"}

PutsAt(i) == {k \in Puts : requests[k].pos = i}

IsRecord(i) == Fetched[i].t = "obj"

\* email_confirmed_at is absent, null or empty.
Unconfirmed(i) ==
    /\ IsRecord(i)
    /\ \/ "email_confirmed_at" \notin DOMAIN Fetched[i].f
       \/ Fetched[i].f["email_confirmed_at"] = JNull
       \/ Fetched[i].f["email_confirmed_at"] = JStr("")

Confirmed(i) == IsRecord(i) /\ ~Unconfirmed(i)

\* The record's email is exactly the target of the reset.
Matches(i) ==
    /\ IsRecord(i)
    /\ "email" \in DOMAIN Fetched[i].f
    /\ Fetched[i].f["email"] = JStr(TargetEmail)

MatchSet == {i \in 1..Len(Fetched) : Matches(i)}

Fixer == prog = "fix_email_confirmation"

Resetter == prog = "reset_password"

-----------------------------------------------------------------------------
\* C1: in a run of fix_email_confirmation whose fetch returned 200, every
\* record consumed so far with an absent, null or empty email_confirmed_at
\* has exactly one PUT, every record with a non-empty one has none, and
\* nothing not yet consumed has any; at the summary this covers the whole
\* list, whatever the statuses of the PUTs.
C1_OneUpdatePerUnconfirmed ==
    (Fixer /\ FetchOk) =>
        /\ outcome = "summary" => idx = Len(Fetched)
        /\ \A i \in 1..Len(Fetched) :
              /\ (i <= idx /\ Unconfirmed(i)) => Cardinality(PutsAt(i)) = 1
              /\ (i > idx \/ ~Unconfirmed(i)) => PutsAt(i) = {}

\* A finished run over a list holding a record without the key, whose PUT
\* failed, next to an already confirmed record.
C1_Witness ==
    /\ Fixer
    /\ outcome = "summary"
    /\ \E i, j \in 1..Len(Fetched) :
          /\ IsRecord(i)
          /\ "email_confirmed_at" \notin DOMAIN Fetched[i].f
          /\ \E k \in PutsAt(i) : requests[k].status # 200
          /\ Confirmed(j)

\* C2: after every iteration of the fixer's loop, and at its end,
\* fixed_count + already_confirmed + errors is the number of mapping-shaped
\* entries among those consumed; entries that are no mapping add nothing.
C2_TallySum ==
    Fixer =>
        fixed_count + already_confirmed + errors
            = Cardinality({i \in 1..idx : IsRecord(i)})

\* A finished run whose list holds a non-mapping entry and a record.
C2_Witness ==
    /\ Fixer
    /\ outcome = "summary"
    /\ \E i, j \in 1..Len(Fetched) : ~IsRecord(i) /\ IsRecord(j)
    /\ fixed_count + already_confirmed + errors < Len(Fetched)

\* C3 as stated: reset_password issues at most one PUT, and only when
\* exactly one record matches the target email.
C3_OnlyWhenExactlyOneMatch ==
    Resetter =>
        /\ Cardinality(Puts) <= 1
        /\ Puts # {} => Cardinality(MatchSet) = 1

\* C3 amended: reset_password issues at most one PUT, only when at least
\* one record matches the target email, and then for the first such record;
\* with no match it issues none.
C3_OnlyWhenSomeMatch ==
    Resetter =>
        /\ Cardinality(Puts) <= 1
        /\ \A k \in Puts :
              /\ MatchSet # {}
              /\ requests[k].pos \in MatchSet
              /\ \A i \in MatchSet : requests[k].pos <= i
        /\ MatchSet = {} => Puts = {}
        /\ (pc = "done" /\ FetchOk /\ data.t \in {"obj", "arr"} /\ MatchSet # {})
              => Cardinality(Puts) = 1

\* A finished reset over a list in which two records carry the target email.
C3_Witness ==
    /\ Resetter
    /\ pc = "done"
    /\ Cardinality(MatchSet) = 2
    /\ Cardinality(Puts) = 1

\* C4: test_login returns True exactly when the token endpoint answered 200,
\* whatever the body.
C4_TrueIffOk ==
    (prog = "test_login" /\ pc = "done") =>
        /\ outcome \in {"True", "False"}
        /\ outcome = "True" <=> requests[1].status = 200

\* C5: a list fetch answered with another status than 200 ends the run of
\* the fixer and of the reset tool after that one request, with no record
\* consumed, no PUT and every counter at 0.
C5_FetchFailureAborts ==
    ((Fixer \/ Resetter) /\ requests # <<>> /\ requests[1].status # 200) =>
        /\ pc = "done"
        /\ outcome = "fetch_failed"
        /\ Len(requests) = 1
        /\ Puts = {}
        /\ users = <<>>
        /\ idx = 0
        /\ target_user = JNull
        /\ fixed_count = 0 /\ already_confirmed = 0 /\ errors = 0

\* The fixer after a list fetch answered 500.
C5_Witness ==
    /\ Fixer
    /\ Len(requests) = 1
    /\ requests[1].method = "GET"
    /\ requests[1].status = 500

\* C6: in the fixer fixed_count is the number of PUTs answered 200 and errors
\* the number answered otherwise, no record gets a second PUT, PUTs follow
\* list order, and a run that reaches the summary has gone on past every
\* failed PUT to all later records.
C6_ErrorsCountedLoopContinues ==
    Fixer =>
        /\ fixed_count = Cardinality({k \in Puts : requests[k].status = 200})
        /\ errors = Cardinality({k \in Puts : requests[k].status # 200})
        /\ \A k, l \in Puts : k < l => requests[k].pos < requests[l].pos
        /\ outcome = "summary" =>
              \A k \in Puts : requests[k].status # 200 =>
                  \A i \in (requests[k].pos + 1)..Len(Fetched) :
                      /\ i <= idx
                      /\ Unconfirmed(i) => PutsAt(i) # {}

\* A finished run in which a PUT failed and a later record was still fixed.
C6_Witness ==
    /\ Fixer
    /\ outcome = "summary"
    /\ errors = 1
    /\ fixed_count = 1
    /\ \E k, l \in Puts :
          k < l /\ requests[k].status # 200 /\ requests[l].status = 200

\* C7 as stated: a 200 body that is neither mapping nor sequence is handled
\* by both tools as an empty list: the fixer reaches its summary with all
\* counters 0, the reset tool its not-found outcome, and neither PUTs.
C7_OtherShapeIsEmptyList ==
    ((Fixer \/ Resetter) /\ pc = "done" /\ FetchOk /\ data.t \notin {"obj", "arr"}) =>
        /\ Puts = {}
        /\ Fixer => /\ outcome = "summary"
                    /\ fixed_count = 0 /\ already_confirmed = 0 /\ errors = 0
        /\ Resetter => outcome = "not_found"

\* C7 amended: the fixer handles such a body as an empty list (summary, all
\* counters 0); the reset tool ends at once with an unexpected-format
\* error, before any scan; neither issues a PUT.
C7_OtherShapeNoUpdates ==
    ((Fixer \/ Resetter) /\ FetchOk /\ data.t \notin {"obj", "arr"}) =>
        /\ Puts = {}
        /\ Len(requests) = 1
        /\ Fixer => /\ pc = "done" => outcome = "summary"
                    /\ users = <<>>
                    /\ fixed_count = 0 /\ already_confirmed = 0 /\ errors = 0
        /\ Resetter => /\ pc = "done"
                       /\ outcome = "unexpected_format"
                       /\ target_user = JNull

\* The reset tool after a 200 answer whose body is a JSON string.
C7_Witness ==
    /\ Resetter
    /\ FetchOk
    /\ data = JStr("error")
    /\ pc = "done"

\* C8 as stated: no run issues more than two requests.
C8_AtMostTwoRequests == Len(requests) <= 2

\* C8 amended: test_login issues one request, reset_password at most two,
\* and the fixer one fetch plus one PUT per unconfirmed record consumed, so
\* at most one more than the length of the fetched list.
C8_RequestCount ==
    /\ prog = "test_login" => Len(requests) <= 1 /\ (pc = "done" => Len(requests) = 1)
    /\ Resetter => Len(requests) <= 2
    /\ (Fixer /\ requests # <<>>) =>
          /\ Len(requests) = 1 + Cardinality({i \in 1..idx : Unconfirmed(i)})
          /\ Len(requests) <= 1 + Len(Fetched)

\* A finished run of the fixer that issued three requests.
C8_Witness ==
    /\ Fixer
    /\ outcome = "summary"
    /\ Len(requests) = 3

\* C9: every PUT is keyed by an id present and non-null in its record.
C9_UpdateHasId ==
    (Fixer \/ Resetter) =>
        \A k \in Puts :
            /\ "id" \in DOMAIN Fetched[requests[k].pos].f
            /\ Fetched[requests[k].pos].f["id"] # JNull
            /\ requests[k].path = Fetched[requests[k].pos].f["id"].s

\* C10: the second run, served the same records in the other shape and the
\* same answers to its PUTs, issues the same requests in the same order and
\* ends with the same outcome and tallies.
C10_ShapeIndependent ==
    (prev # <<>> /\ pc = "done") =>
        /\ requests = prev[1].requests
        /\ outcome = prev[1].outcome
        /\ fixed_count = prev[1].fixed_count
        /\ already_confirmed = prev[1].already_confirmed
        /\ errors = prev[1].errors

\* Both runs of the fixer are over: the first read the records under
\* "users", the second as a bare array, each PUT twice, once failing.
C10_Witness ==
    /\ prev # <<>>
    /\ Fixer
    /\ pc = "done"
    /\ IsDict(prev[1].data)
    /\ IsList(data)
    /\ Len(requests) = 3
    /\ errors = 1
    /\ already_confirmed = 0

====
